---- MODULE Spec2Model ----
(***************************************************************************)
(* State-machine model of the calorie tracker backend (src/index.py).      *)
(*                                                                         *)
(* State: the three tables (users, food_items, food_logs), the requests    *)
(* that are between two database statements of their handler, and the      *)
(* last HTTP response sent.  A handler that performs one database          *)
(* statement is one action.  A handler that reads and later writes (login, *)
(* analyze_and_find_food, delete_log) is one action per database statement,*)
(* with the handler's locals kept in a *_pending bag in between: every     *)
(* request has its own session (get_db), and nothing orders two requests.  *)
(*                                                                         *)
(* Text is a sequence of one-character strings so that lower(), replace()  *)
(* and ORDER BY can be computed.  Floats are fixed-point numbers with      *)
(* QtyScale units per 1.0; only the columns that an endpoint reads are     *)
(* modelled (protein, carbs, fat, fiber are written like calories and read *)
(* by nothing).  The language service is an input: its replies are drawn   *)
(* from sets of JSON objects whose keys may be missing and whose values    *)
(* have the types the prompts ask for.                                     *)
(***************************************************************************)
EXTENDS Integers, Sequences, FiniteSets, Bags, TLC

\* ------------------------------------------------------------- bounds
\* Rows the food_items table may hold.
MaxItems == 3
\* Log identifiers the food_logs sequence may hand out.
MaxLogs == 2
\* Requests that may be between two database statements at once.
MaxInFlight == 2
\* Fixed-point scale of a float: 1.0 is QtyScale, so x / 100.0 is exact.
QtyScale == 100

VARIABLES
    fk_enforced,      \* whether the database behind DATABASE_URL enforces ForeignKey
    users,            \* table users: sequence of rows, id = index
    food_items,       \* table food_items: sequence of rows, id = index
    food_logs,        \* table food_logs: set of rows with an id column
    next_log_id,      \* the food_logs id sequence
    login_pending,    \* bag of login requests between lookup and commit
    analyze_pending,  \* bag of analyze requests between lookup and commit
    delete_pending,   \* bag of delete_log requests between lookup and commit
    resp,             \* the last response sent, with the handler's locals
    origin            \* history: per food_items row, the extracted name it was created for

vars == <<fk_enforced, users, food_items, food_logs, next_log_id,
          login_pending, analyze_pending, delete_pending, resp, origin>>


\* ------------------------------------------------------------- text
UpperCase == <<"A","B","C","D","E","F","G","H","I","J","K","L","M",
               "N","O","P","Q","R","S","T","U","V","W","X","Y","Z">>

LowerCase == <<"a","b","c","d","e","f","g","h","i","j","k","l","m",
               "n","o","p","q","r","s","t","u","v","w","x","y","z">>

Digits == <<"0","1","2","3","4","5","6","7","8","9">>

\* Characters in code point order: space, '-', digits, upper case, lower case.
CodeOrder == <<" ", "-">> \o Digits \o UpperCase \o LowerCase

Chars == {CodeOrder[i] : i \in 1..Len(CodeOrder)}

\* ord(c), up to the offset of the table.
Ord == [c \in Chars |-> CHOOSE i \in 1..Len(CodeOrder) : CodeOrder[i] = c]

LowerChar ==
    [c \in Chars |->
        IF \E i \in 1..Len(UpperCase) : UpperCase[i] = c
        THEN LowerCase[CHOOSE i \in 1..Len(UpperCase) : UpperCase[i] = c]
        ELSE c]

\* str.lower()
Lower(s) == [i \in 1..Len(s) |-> LowerChar[s[i]]]

\* str.replace(old, new) for a non-empty old: left to right, non-overlapping.
RECURSIVE Replace(_, _, _)
Replace(s, old, new) ==
    IF Len(s) < Len(old) THEN s
    ELSE IF SubSeq(s, 1, Len(old)) = old
         THEN new \o Replace(SubSeq(s, Len(old) + 1, Len(s)), old, new)
         ELSE <<Head(s)>> \o Replace(Tail(s), old, new)

\* The order of ORDER BY on a text column: by code point, a prefix first.
RECURSIVE StrLessEq(_, _)
StrLessEq(a, b) ==
    IF a = <<>> THEN TRUE
    ELSE IF b = <<>> THEN FALSE
    ELSE IF Ord[Head(a)] < Ord[Head(b)] THEN TRUE
    ELSE IF Ord[Head(a)] > Ord[Head(b)] THEN FALSE
    ELSE StrLessEq(Tail(a), Tail(b))

Pad2(n) == <<Digits[(n \div 10) + 1], Digits[(n % 10) + 1]>>

\* date.isoformat(): YYYY-MM-DD of a date <<year, month, day>>.
isoformat(d) ==
    Pad2(d[1] \div 100) \o Pad2(d[1] % 100) \o <<"-">> \o Pad2(d[2]) \o <<"-">> \o Pad2(d[3])

\* dict.get(key, default)
Get(d, key, default) == IF key \in DOMAIN d THEN d[key] ELSE default

\* ------------------------------------------------------------- queries
\* db.query(User).filter(User.username == username).first(): the id, 0 for None.
UserByName(username) ==
    IF \E i \in 1..Len(users) : users[i].username = username
    THEN CHOOSE i \in 1..Len(users) : users[i].username = username
    ELSE 0

InFlight ==
    BagCardinality(login_pending) + BagCardinality(analyze_pending)
        + BagCardinality(delete_pending)

\* The next value of resp.tick: it changes with every response sent.
Tick == 1 - resp.tick

\* What FastAPI answers when a handler raises something that is no HTTPException.
ServerError(op) ==
    [op |-> op, tick |-> Tick, status |-> 500, detail |-> "Internal Server Error"]

\* ------------------------------------------------------------- login
\* A faulty login that takes a wrong password for a password change; C3 must
\* tell it from LoginExisting.
LoginExistingResets(username, password) ==
    LET user == UserByName(username) IN
    /\ user # 0
    /\ users' = [users EXCEPT ![user].password = password]
    /\ resp' = [op |-> "login", tick |-> Tick, status |-> 200,
                message |-> "Login successful.",
                username |-> username, password |-> password, found |-> TRUE]
    /\ UNCHANGED <<fk_enforced, food_items, food_logs, next_log_id,
                   login_pending, analyze_pending, delete_pending, origin>>

\* login, lines 117 and 124-126: the user exists.
LoginExisting(username, password) ==
    LET user == UserByName(username) IN
    /\ user # 0
    /\ resp' = IF users[user].password # password
               THEN [op |-> "login", tick |-> Tick, status |-> 401,
                     detail |-> "Incorrect password",
                     username |-> username, password |-> password, found |-> TRUE]
               ELSE [op |-> "login", tick |-> Tick, status |-> 200,
                     message |-> "Login successful.",
                     username |-> username, password |-> password, found |-> TRUE]
    /\ UNCHANGED <<fk_enforced, users, food_items, food_logs, next_log_id,
                   login_pending, analyze_pending, delete_pending, origin>>

\* login, lines 117-120: no user; the new row is added to the session.
LoginBegin(username, password) ==
    /\ UserByName(username) = 0
    /\ InFlight < MaxInFlight
    /\ login_pending' = login_pending (+)
                            SetToBag({[username |-> username, password |-> password]})
    /\ UNCHANGED <<fk_enforced, users, food_items, food_logs, next_log_id,
                   analyze_pending, delete_pending, resp, origin>>

\* The INSERT of db.commit() at line 121 against users.username unique=True
\* (line 34): TRUE when the row is accepted.
UsernameFree(username) == UserByName(username) = 0

\* login, lines 121-123: commit; a username taken meanwhile is an IntegrityError.
LoginCommit(p) ==
    /\ BagIn(p, login_pending)
    /\ login_pending' = login_pending (-) SetToBag({p})
    /\ IF UsernameFree(p.username)
       THEN /\ users' = Append(users, [username |-> p.username, password |-> p.password])
            /\ resp' = [op |-> "login", tick |-> Tick, status |-> 200,
                        message |-> "User created.",
                        username |-> p.username, password |-> p.password,
                        found |-> FALSE]
       ELSE /\ users' = users
            /\ resp' = ServerError("login") @@
                           [username |-> p.username, password |-> p.password,
                            found |-> FALSE]
    /\ UNCHANGED <<fk_enforced, food_items, food_logs, next_log_id,
                   analyze_pending, delete_pending, origin>>

\* ------------------------------------------------------------- analyze
\* float(quantity)
Float(quantity) == quantity * QtyScale

\* The units whose nutrition is recorded per 100, line 165.
Per100Units == {<<"m","l">>, <<"g">>, <<"g","r","a","m">>, <<"g","r","a","m","s">>}

\* normalized_quantity, lines 162-166.
NormalizedQuantity(quantity, unit) ==
    IF unit \in Per100Units THEN Float(quantity) \div 100 ELSE Float(quantity)

\* A faulty serving label that keeps the plural s; C4 must tell it from
\* ServingSizeUnit.
ServingSizeUnitKeepsPlural(unit) ==
    IF unit \in Per100Units
    THEN <<"1","0","0">> \o Replace(unit, <<"g","r","a","m">>, <<"g">>)
    ELSE unit

\* serving_size_unit, lines 163-167.
ServingSizeUnit(unit) ==
    IF unit \in Per100Units
    THEN <<"1","0","0">> \o Replace(Replace(unit, <<"g","r","a","m">>, <<"g">>), <<"s">>, <<>>)
    ELSE unit

\* A faulty lookup that filters on FoodItem.id instead of FoodItem.user_id; C9
\* must tell it from MatchingItems.
MatchingItemsById(user_id, name) ==
    {i \in 1..Len(food_items) : i = user_id /\ food_items[i].name = name}

\* The rows of line 169's query: FoodItem.user_id == user.id, FoodItem.name == name.
MatchingItems(user_id, name) ==
    {i \in 1..Len(food_items) :
        food_items[i].user_id = user_id /\ food_items[i].name = name}

\* The locals of analyze_and_find_food after lines 154-156.
Parsed(user, parsed_result) ==
    [user_id |-> user,
     quantity |-> Get(parsed_result, "quantity", 1),
     unit |-> Lower(Get(parsed_result, "unit", <<"u","n","i","t">>)),
     item_name_raw |-> Lower(Get(parsed_result, "item_name", <<>>))]

\* The body of an analyze response, lines 172 and 200.
AnalyzeResponse(p, item_id, item, new) ==
    [op |-> "analyze", tick |-> Tick, status |-> 200,
     user_id |-> p.user_id, extracted_quantity |-> p.quantity, unit |-> p.unit,
     item_name_raw |-> p.item_name_raw,
     serving_size_unit |-> ServingSizeUnit(p.unit),
     item_id |-> item_id, item |-> item,
     quantity |-> NormalizedQuantity(p.quantity, p.unit), new |-> new]

\* analyze_and_find_food, lines 130-132: unknown user.
AnalyzeUnknownUser(username) ==
    /\ UserByName(username) = 0
    /\ resp' = [op |-> "analyze", tick |-> Tick, status |-> 404,
                detail |-> "User not found"]
    /\ UNCHANGED <<fk_enforced, users, food_items, food_logs, next_log_id,
                   login_pending, analyze_pending, delete_pending, origin>>

\* analyze_and_find_food, lines 147-159: the extraction call or its JSON fails.
AnalyzeParseFail(username) ==
    /\ UserByName(username) # 0
    /\ resp' = [op |-> "analyze", tick |-> Tick, status |-> 500,
                detail |-> "AI parsing failed"]
    /\ UNCHANGED <<fk_enforced, users, food_items, food_logs, next_log_id,
                   login_pending, analyze_pending, delete_pending, origin>>

\* analyze_and_find_food, lines 130-172: the lookup finds a row. first() without
\* ORDER BY returns any of the matching rows.
AnalyzeExisting(username, parsed_result) ==
    LET user == UserByName(username)
        p == Parsed(user, parsed_result)
    IN
    /\ user # 0
    /\ \E i \in MatchingItems(user, p.item_name_raw) :
           resp' = AnalyzeResponse(p, i, food_items[i], FALSE)
    /\ UNCHANGED <<fk_enforced, users, food_items, food_logs, next_log_id,
                   login_pending, analyze_pending, delete_pending, origin>>

\* analyze_and_find_food, lines 130-171: the lookup finds nothing; the nutrition
\* call is next.
AnalyzeBegin(username, parsed_result) ==
    LET user == UserByName(username)
        p == Parsed(user, parsed_result)
    IN
    /\ user # 0
    /\ MatchingItems(user, p.item_name_raw) = {}
    /\ InFlight < MaxInFlight
    /\ analyze_pending' = analyze_pending (+) SetToBag({p})
    /\ UNCHANGED <<fk_enforced, users, food_items, food_logs, next_log_id,
                   login_pending, delete_pending, resp, origin>>

\* The row of lines 187-196.
NewItem(p, nutrition_data) ==
    [name |-> Get(nutrition_data, "name", p.item_name_raw),
     calories |-> Get(nutrition_data, "calories", 0),
     serving_size_unit |-> ServingSizeUnit(p.unit),
     user_id |-> p.user_id]

\* analyze_and_find_food, lines 182-200: the nutrition reply parses; insert, commit.
AnalyzeCommit(p, nutrition_data) ==
    /\ BagIn(p, analyze_pending)
    /\ Len(food_items) < MaxItems
    /\ analyze_pending' = analyze_pending (-) SetToBag({p})
    /\ food_items' = Append(food_items, NewItem(p, nutrition_data))
    /\ origin' = Append(origin, p.item_name_raw)
    /\ resp' = AnalyzeResponse(p, Len(food_items) + 1, NewItem(p, nutrition_data), TRUE)
    /\ UNCHANGED <<fk_enforced, users, food_logs, next_log_id,
                   login_pending, delete_pending>>

\* analyze_and_find_food, lines 182-185 and 202-203: the nutrition call or its JSON fails.
AnalyzeNutritionFail(p) ==
    /\ BagIn(p, analyze_pending)
    /\ analyze_pending' = analyze_pending (-) SetToBag({p})
    /\ resp' = [op |-> "analyze", tick |-> Tick, status |-> 500,
                detail |-> "AI nutrition fetch failed"]
    /\ UNCHANGED <<fk_enforced, users, food_items, food_logs, next_log_id,
                   login_pending, delete_pending, origin>>

\* ------------------------------------------------------------- food items
\* A food_items row as FoodItemInDB serializes it (orm_mode), lines 75-79.
FoodItemInDB(i) == [id |-> i] @@ food_items[i]

\* filter(FoodItem.user_id == user.id), line 210.
ItemsOfUser(user_id) == {i \in 1..Len(food_items) : food_items[i].user_id = user_id}

\* A faulty listing in the order of the ids; C8 must tell it from OrderByName.
OrderById(S) ==
    {s \in [1..Cardinality(S) -> S] :
        \A i, j \in 1..Cardinality(S) : i < j => s[i] < s[j]}

\* order_by(FoodItem.name).all(), line 210: every listing of the rows S that is
\* ascending by name (rows of equal name come in any order).
OrderByName(S) ==
    {s \in [1..Cardinality(S) -> S] :
        /\ \A i, j \in 1..Cardinality(S) : i # j => s[i] # s[j]
        /\ \A i \in 1..(Cardinality(S) - 1) :
               StrLessEq(food_items[s[i]].name, food_items[s[i + 1]].name)}

\* get_user_food_items, lines 207-210.
GetUserFoodItems(username) ==
    LET user == UserByName(username) IN
    /\ IF user = 0
       THEN resp' = [op |-> "get_user_food_items", tick |-> Tick, status |-> 404,
                     detail |-> "User not found", username |-> username]
       ELSE \E s \in OrderByName(ItemsOfUser(user)) :
                resp' = [op |-> "get_user_food_items", tick |-> Tick, status |-> 200,
                         username |-> username, user_id |-> user,
                         body |-> [k \in 1..Len(s) |-> FoodItemInDB(s[k])]]
    /\ UNCHANGED <<fk_enforced, users, food_items, food_logs, next_log_id,
                   login_pending, analyze_pending, delete_pending, origin>>

\* ------------------------------------------------------------- food logs
\* Whether food_items holds a row with this id.
ItemExists(food_item_id) == food_item_id \in 1..Len(food_items)

\* A faulty row that takes the column default 1.0 for the quantity; C7 must tell
\* it from NewLog.
NewLogDefaultQuantity(user, log) ==
    [id |-> next_log_id, date |-> log.date, meal_type |-> log.meal_type,
     quantity |-> QtyScale, food_item_id |-> log.food_item_id, user_id |-> user]

\* The row of line 217.
NewLog(user, log) ==
    [id |-> next_log_id, date |-> log.date, meal_type |-> log.meal_type,
     quantity |-> log.quantity, food_item_id |-> log.food_item_id, user_id |-> user]

\* A food_logs row as FoodLogInDB serializes it, lines 87-94: the food_item
\* relationship is loaded by id and must be a FoodItemInDB.
FoodLogInDB(l) ==
    [id |-> l.id, date |-> l.date, meal_type |-> l.meal_type,
     quantity |-> l.quantity, food_item |-> FoodItemInDB(l.food_item_id)]

\* The INSERT of db.commit() at line 219 against ForeignKey("food_items.id")
\* (line 59): TRUE when the row is accepted.
LogAccepted(log) == ~fk_enforced \/ ItemExists(log.food_item_id)

\* create_food_log, lines 214-216: unknown user.
CreateFoodLogUnknownUser(username, log) ==
    /\ UserByName(username) = 0
    /\ resp' = [op |-> "create_food_log", tick |-> Tick, status |-> 404,
                detail |-> "User not found", username |-> username, log |-> log]
    /\ UNCHANGED <<fk_enforced, users, food_items, food_logs, next_log_id,
                   login_pending, analyze_pending, delete_pending, origin>>

\* create_food_log, lines 214-219: the commit raises IntegrityError.
CreateFoodLogRejected(username, log) ==
    /\ UserByName(username) # 0
    /\ ~LogAccepted(log)
    /\ resp' = ServerError("create_food_log") @@ [username |-> username, log |-> log]
    /\ UNCHANGED <<fk_enforced, users, food_items, food_logs, next_log_id,
                   login_pending, analyze_pending, delete_pending, origin>>

\* create_food_log, lines 214-221, and the response_model of line 212: the row is
\* committed, then serialized; a row whose food_item is None fails validation.
CreateFoodLog(username, log) ==
    LET user == UserByName(username) IN
    /\ user # 0
    /\ LogAccepted(log)
    /\ next_log_id <= MaxLogs
    /\ food_logs' = food_logs \cup {NewLog(user, log)}
    /\ next_log_id' = next_log_id + 1
    /\ resp' = IF ItemExists(log.food_item_id)
               THEN [op |-> "create_food_log", tick |-> Tick, status |-> 200,
                     username |-> username, log |-> log,
                     body |-> FoodLogInDB(NewLog(user, log))]
               ELSE ServerError("create_food_log") @@ [username |-> username, log |-> log]
    /\ UNCHANGED <<fk_enforced, users, food_items,
                   login_pending, analyze_pending, delete_pending, origin>>

\* get_logs_for_date, lines 225-228, and the response_model of line 223.
GetLogsForDate(username, log_date) ==
    LET user == UserByName(username)
        rows == {l \in food_logs : l.user_id = user /\ l.date = log_date}
    IN
    /\ resp' = IF user = 0
               THEN [op |-> "get_logs_for_date", tick |-> Tick, status |-> 404,
                     detail |-> "User not found"]
               ELSE IF \E l \in rows : ~ItemExists(l.food_item_id)
               THEN ServerError("get_logs_for_date")
               ELSE [op |-> "get_logs_for_date", tick |-> Tick, status |-> 200,
                     body |-> {FoodLogInDB(l) : l \in rows}]
    /\ UNCHANGED <<fk_enforced, users, food_items, food_logs, next_log_id,
                   login_pending, analyze_pending, delete_pending, origin>>

\* db.query(FoodLog).filter(FoodLog.id == log_id).first(), line 232.
LogById(log_id) == {l \in food_logs : l.id = log_id}

\* A faulty delete that reports success for a log that does not exist; C6 must
\* tell it from DeleteLogNotFound.
DeleteLogIgnoresMissing(log_id) ==
    /\ LogById(log_id) = {}
    /\ resp' = [op |-> "delete_log", tick |-> Tick, status |-> 200,
                message |-> "Log deleted", log_id |-> log_id]
    /\ UNCHANGED <<fk_enforced, users, food_items, food_logs, next_log_id,
                   login_pending, analyze_pending, delete_pending, origin>>

\* delete_log, lines 232-234: no such log.
DeleteLogNotFound(log_id) ==
    /\ LogById(log_id) = {}
    /\ resp' = [op |-> "delete_log", tick |-> Tick, status |-> 404,
                detail |-> "Log not found", log_id |-> log_id]
    /\ UNCHANGED <<fk_enforced, users, food_items, food_logs, next_log_id,
                   login_pending, analyze_pending, delete_pending, origin>>

\* delete_log, lines 232-235: the log is found and marked deleted in the session.
DeleteLogBegin(log_id) ==
    /\ LogById(log_id) # {}
    /\ InFlight < MaxInFlight
    /\ delete_pending' = delete_pending (+) SetToBag({log_id})
    /\ UNCHANGED <<fk_enforced, users, food_items, food_logs, next_log_id,
                   login_pending, analyze_pending, resp, origin>>

\* delete_log, lines 236-237: commit. The DELETE of a row that another request
\* deleted meanwhile matches nothing; the ORM warns and the handler goes on.
DeleteLogCommit(log_id) ==
    /\ BagIn(log_id, delete_pending)
    /\ delete_pending' = delete_pending (-) SetToBag({log_id})
    /\ food_logs' = food_logs \ LogById(log_id)
    /\ resp' = [op |-> "delete_log", tick |-> Tick, status |-> 200,
                message |-> "Log deleted", log_id |-> log_id]
    /\ UNCHANGED <<fk_enforced, users, food_items, next_log_id,
                   login_pending, analyze_pending, origin>>

\* ------------------------------------------------------------- calendar
\* select_from(FoodLog).join(FoodItem, ...).filter(FoodLog.user_id == user.id),
\* lines 253-255: the logs of the user that have a food_items row to join.
JoinedLogs(user_id) ==
    {l \in food_logs : l.user_id = user_id /\ ItemExists(l.food_item_id)}

\* A faulty aggregate that adds up the quantities alone; C5 must tell it from
\* SumCalories.
RECURSIVE SumQuantities(_)
SumQuantities(S) ==
    IF S = {} THEN 0
    ELSE LET l == CHOOSE x \in S : TRUE
         IN l.quantity + SumQuantities(S \ {l})

\* func.sum(FoodLog.quantity * FoodItem.calories) over a group, line 251.
RECURSIVE SumCalories(_)
SumCalories(S) ==
    IF S = {} THEN 0
    ELSE LET l == CHOOSE x \in S : TRUE
         IN l.quantity * food_items[l.food_item_id].calories + SumCalories(S \ {l})

\* group_by(FoodLog.date) and the comprehension of lines 264-268. A group's sum is
\* NULL only when every product in it is NULL, which no modelled value is.
CalendarData(user_id) ==
    LET rows == JoinedLogs(user_id) IN
    [k \in {isoformat(l.date) : l \in rows} |->
        SumCalories({l \in rows : isoformat(l.date) = k})]

\* get_calendar_data, lines 241-270.
GetCalendarData(username) ==
    LET user == UserByName(username) IN
    /\ resp' = IF user = 0
               THEN [op |-> "get_calendar_data", tick |-> Tick, status |-> 404,
                     detail |-> "User not found", username |-> username]
               ELSE [op |-> "get_calendar_data", tick |-> Tick, status |-> 200,
                     username |-> username, user_id |-> user,
                     body |-> CalendarData(user)]
    /\ UNCHANGED <<fk_enforced, users, food_items, food_logs, next_log_id,
                   login_pending, analyze_pending, delete_pending, origin>>

\* ------------------------------------------------------------- initial state
\* An empty database after Base.metadata.create_all (line 63), on a backend that
\* enforces foreign keys or on one that does not.
Init ==
    /\ fk_enforced \in BOOLEAN
    /\ users = <<>>
    /\ food_items = <<>>
    /\ food_logs = {}
    /\ next_log_id = 1
    /\ login_pending = EmptyBag
    /\ analyze_pending = EmptyBag
    /\ delete_pending = EmptyBag
    /\ resp = [op |-> "none", tick |-> 0, status |-> 0]
    /\ origin = <<>>

\* ------------------------------------------------------------- requests
\* The handlers by endpoint, with their inputs drawn from the sets of the record
\* in: usernames, passwords, parsed_results and nutrition_data (the language
\* service's two replies), logs (FoodLogCreate payloads), dates and log_ids.
LoginHandlers(in) ==
    \/ \E un \in in.usernames, pw \in in.passwords : LoginExisting(un, pw)
    \/ \E un \in in.usernames, pw \in in.passwords : LoginBegin(un, pw)
    \/ \E p \in BagToSet(login_pending) : LoginCommit(p)

AnalyzeHandlers(in) ==
    \/ \E un \in in.usernames : AnalyzeUnknownUser(un)
    \/ \E un \in in.usernames : AnalyzeParseFail(un)
    \/ \E un \in in.usernames, r \in in.parsed_results : AnalyzeExisting(un, r)
    \/ \E un \in in.usernames, r \in in.parsed_results : AnalyzeBegin(un, r)
    \/ \E p \in BagToSet(analyze_pending), n \in in.nutrition_data : AnalyzeCommit(p, n)
    \/ \E p \in BagToSet(analyze_pending) : AnalyzeNutritionFail(p)

ListHandlers(in) ==
    \E un \in in.usernames : GetUserFoodItems(un)

CreateLogHandlers(in) ==
    \/ \E un \in in.usernames, l \in in.logs : CreateFoodLogUnknownUser(un, l)
    \/ \E un \in in.usernames, l \in in.logs : CreateFoodLogRejected(un, l)
    \/ \E un \in in.usernames, l \in in.logs : CreateFoodLog(un, l)

ReadLogHandlers(in) ==
    \E un \in in.usernames, d \in in.dates : GetLogsForDate(un, d)

CalendarHandlers(in) ==
    \E un \in in.usernames : GetCalendarData(un)

DeleteLogHandlers(in) ==
    \/ \E id \in in.log_ids : DeleteLogNotFound(id)
    \/ \E id \in in.log_ids : DeleteLogBegin(id)
    \/ \E id \in BagToSet(delete_pending) : DeleteLogCommit(id)

Handlers(in) ==
    \/ LoginHandlers(in)
    \/ AnalyzeHandlers(in)
    \/ ListHandlers(in)
    \/ CreateLogHandlers(in)
    \/ ReadLogHandlers(in)
    \/ DeleteLogHandlers(in)
    \/ CalendarHandlers(in)

\* JSON objects with the keys K of the extraction prompt, lines 135-146.
ParsedResult(K, q, u, n) ==
    [k \in K |-> IF k = "quantity" THEN q ELSE IF k = "unit" THEN u ELSE n]

\* JSON objects with the keys K of the nutrition prompt, lines 174-181.
NutritionData(K, n, c) == [k \in K |-> IF k = "name" THEN n ELSE c]

AllParsedKeys == {"quantity", "unit", "item_name"}

AllNutritionKeys == {"name", "calories"}

Day1 == <<2024, 1, 5>>

Day2 == <<2024, 11, 30>>

Unit == <<"u","n","i","t">>

\* The smallest inputs that reach every branch of every handler.
BaseInputs ==
    [usernames |-> {"alice"},
     passwords |-> {"pw1"},
     parsed_results |-> {ParsedResult(AllParsedKeys, 1, Unit, <<"e","g","g">>)},
     nutrition_data |-> {NutritionData(AllNutritionKeys, <<"e","g","g">>, 5)},
     logs |-> {[date |-> Day1, meal_type |-> "lunch", quantity |-> 2 * QtyScale,
                food_item_id |-> 1]},
     dates |-> {Day1},
     log_ids |-> {1}]

Next == Handlers(BaseInputs)

Spec == Init /\ [][Next]_vars

\* ------------------------------------------------------------- specifications
\* Each specification runs every handler; it widens the inputs of the handlers
\* its properties are about and keeps the base inputs for the others.

Milk == <<"m","i","l","k">>

\* Two usernames and two passwords: first logins, repeat logins, wrong passwords.
AuthInputs ==
    [BaseInputs EXCEPT !.usernames = {"alice", "bob"}, !.passwords = {"pw1", "pw2"}]

NextAuth == LoginHandlers(AuthInputs) \/ CreateLogHandlers(AuthInputs)

SpecAuth == Init /\ [][NextAuth]_vars

\* One item name mentioned in two spellings and with two units; the nutrition
\* reply names it in lower case, capitalised, or not at all.
FoodInputs ==
    [BaseInputs EXCEPT
        !.parsed_results =
            {ParsedResult(AllParsedKeys, 500, <<"m","l">>, <<"M","i","l","k">>),
             ParsedResult(AllParsedKeys, 1, <<"c","u","p">>, Milk)},
        !.nutrition_data =
            {NutritionData(AllNutritionKeys, <<"M","i","l","k">>, 5),
             NutritionData(AllNutritionKeys, Milk, 5),
             NutritionData({"calories"}, Milk, 5)}]

NextFood == LoginHandlers(FoodInputs) \/ AnalyzeHandlers(FoodInputs)

SpecFood == Init /\ [][NextFood]_vars

\* The units of the extraction reply: the four per-100 units, other units (some
\* holding an s or a g), upper case, and a reply without the unit key.
UnitInputs ==
    [BaseInputs EXCEPT
        !.parsed_results =
            {ParsedResult(AllParsedKeys, 500, <<"m","l">>, Milk),
             ParsedResult(AllParsedKeys, 1, <<"M","L">>, Milk),
             ParsedResult(AllParsedKeys, 500, <<"g">>, Milk),
             ParsedResult(AllParsedKeys, 1, <<"g","r","a","m">>, Milk),
             ParsedResult(AllParsedKeys, 500, <<"G","r","a","m","s">>, Milk),
             ParsedResult(AllParsedKeys, 1, <<"k","g">>, Milk),
             ParsedResult(AllParsedKeys, 500, <<"c","u","p","s">>, Milk),
             ParsedResult(AllParsedKeys, 1, Unit, Milk),
             ParsedResult({"item_name"}, 1, Unit, Milk)},
        !.nutrition_data = {NutritionData(AllNutritionKeys, Milk, 5)}]

NextUnits == LoginHandlers(UnitInputs) \/ AnalyzeHandlers(UnitInputs)

SpecUnits == Init /\ [][NextUnits]_vars

\* Two users with one password each.
TwoUsers == [BaseInputs EXCEPT !.usernames = {"alice", "bob"}]


\* Two item names for alice, the second a prefix of the first, so that the order
\* by name differs from the order of insertion; one item name for bob.
ListInputs ==
    [BaseInputs EXCEPT
        !.parsed_results =
            {ParsedResult(AllParsedKeys, 1, Unit, n) : n \in {<<"e","g","g">>, <<"e","g">>}},
        !.nutrition_data = {NutritionData({"calories"}, <<>>, 5)}]

NextList ==
    \/ LoginHandlers(TwoUsers)
    \/ AnalyzeHandlers(ListInputs)
    \/ ListHandlers(TwoUsers)

SpecList == Init /\ [][NextList]_vars

\* Two users; a log of the first food item on one day and a log of a second
\* food item, which may not exist, on another. Only alice has food items.
LogInputs ==
    [BaseInputs EXCEPT
        !.usernames = {"alice", "bob"},
        !.logs =
            {[date |-> Day1, meal_type |-> "lunch", quantity |-> 2 * QtyScale,
              food_item_id |-> 1],
             [date |-> Day2, meal_type |-> "dinner", quantity |-> 3 * QtyScale,
              food_item_id |-> 2]}]

NextLog ==
    \/ LoginHandlers(LogInputs) \/ AnalyzeHandlers(BaseInputs)
    \/ CreateLogHandlers(LogInputs) \/ CalendarHandlers(LogInputs)

SpecLog == Init /\ [][NextLog]_vars

\* ------------------------------------------------------------- properties
\* A step that sends a response.
Responds == resp'.tick # resp.tick

\* The records a step adds to a bag of pending requests.
NewlyPending(before, after) ==
    {p \in BagToSet(after) : CopiesIn(p, after) > CopiesIn(p, before)}

\* Whether the users table holds a row for the username.
Known(username) == \E i \in 1..Len(users) : users[i].username = username

\* The food_items rows that analyze requests of the user created for the
\* extracted name.
CreatedFor(user_id, name) ==
    {i \in 1..Len(food_items) : food_items[i].user_id = user_id /\ origin[i] = name}

Least(S) == CHOOSE i \in S : \A j \in S : i <= j

\* a <= b in lexicographic order: a is a prefix of b, or a has the smaller
\* character at the first position where they differ.
LexLeq(a, b) ==
    \/ Len(a) <= Len(b) /\ \A k \in 1..Len(a) : a[k] = b[k]
    \/ \E k \in 1..Len(a) :
           /\ k <= Len(b)
           /\ \A m \in 1..(k - 1) : a[m] = b[m]
           /\ Ord[a[k]] < Ord[b[k]]

\* C1: once an analyze request of a user has created a food item for an extracted
\* name, a later analyze request of that user with the same extracted name finds
\* it: the request never goes on to the nutrition call, and it is answered with
\* the id of the item created first, new = false, and no new row.
C1_RepeatMentionFindsItem ==
    [][/\ \A p \in NewlyPending(analyze_pending, analyze_pending') :
              CreatedFor(p.user_id, p.item_name_raw) = {}
       /\ (/\ Responds
           /\ resp'.op = "analyze"
           /\ resp'.status = 200
           /\ analyze_pending' = analyze_pending
           /\ CreatedFor(resp'.user_id, resp'.item_name_raw) # {})
          => /\ ~resp'.new
             /\ resp'.item_id = Least(CreatedFor(resp'.user_id, resp'.item_name_raw))
             /\ food_items' = food_items]_vars

\* C2: a login whose lookup finds no row for the username creates exactly one
\* row for it, with the password supplied, and reports "User created.".
C2_FirstLoginCreatesUser ==
    (resp.op = "login" /\ ~resp.found) =>
        /\ resp.status = 200
        /\ resp.message = "User created."
        /\ Cardinality({i \in 1..Len(users) : users[i].username = resp.username}) = 1
        /\ \E i \in 1..Len(users) :
               users[i] = [username |-> resp.username, password |-> resp.password]

\* C3: a login for a username that has a row is answered by its lookup (it never
\* goes on to an insert); it changes no row of any table, reports success when
\* the password supplied equals the stored one and fails with 401 otherwise.
C3_RepeatLoginReadOnly ==
    [][/\ \A p \in NewlyPending(login_pending, login_pending') : ~Known(p.username)
       /\ (Responds /\ resp'.op = "login" /\ resp'.found)
          => /\ users' = users /\ food_items' = food_items /\ food_logs' = food_logs
             /\ Known(resp'.username)
             /\ \A i \in 1..Len(users) :
                    users[i].username = resp'.username =>
                        IF users[i].password = resp'.password
                        THEN resp'.status = 200 /\ resp'.message = "Login successful."
                        ELSE resp'.status = 401]_vars

\* C3 witness: a repeat login with a wrong password was refused while the log
\* table held rows.
C3_Witness ==
    /\ resp.op = "login" /\ resp.found /\ resp.status = 401
    /\ food_logs # {}

\* C4: for the units ml, g, gram and grams the normalized quantity is the
\* extracted quantity divided by 100 and the serving label is "100ml" for ml and
\* "100g" for the others; for every other unit the quantity and the unit pass
\* through unchanged. A new item is stored with that serving label.
C4_UnitNormalization ==
    (resp.op = "analyze" /\ resp.status = 200) =>
        /\ IF resp.unit \in {<<"m","l">>, <<"g">>, <<"g","r","a","m">>,
                             <<"g","r","a","m","s">>}
           THEN /\ resp.quantity * 100 = resp.extracted_quantity * QtyScale
                /\ resp.serving_size_unit =
                       IF resp.unit = <<"m","l">> THEN <<"1","0","0","m","l">>
                       ELSE <<"1","0","0","g">>
           ELSE /\ resp.quantity = resp.extracted_quantity * QtyScale
                /\ resp.serving_size_unit = resp.unit
        /\ resp.new => resp.item.serving_size_unit = resp.serving_size_unit

\* C4 witness: 500 ml was normalized to 5.0 servings of "100ml" for a new item.
C4_Witness ==
    /\ resp.op = "analyze" /\ resp.status = 200 /\ resp.new
    /\ resp.unit = <<"m","l">> /\ resp.extracted_quantity = 500
    /\ resp.quantity = 5 * QtyScale
    /\ resp.item.serving_size_unit = <<"1","0","0","m","l">>

\* The logs with an id up to n among S, as quantity times the calories of the
\* food item each references, added up.
RECURSIVE TotalUpTo(_, _)
TotalUpTo(n, S) ==
    IF n = 0 THEN 0
    ELSE TotalUpTo(n - 1, S)
         + (IF \E l \in S : l.id = n
            THEN LET l == CHOOSE x \in S : x.id = n
                 IN l.quantity * food_items[l.food_item_id].calories
            ELSE 0)

\* The logs of the user of that name.
LogsOfUser(username) ==
    {l \in food_logs : users[l.user_id].username = username}

\* The logs that reference a row of food_items.
WithItem(S) == {l \in S : l.food_item_id \in 1..Len(food_items)}

C6_DeleteUnknownLog ==
    [][/\ \A id \in NewlyPending(delete_pending, delete_pending') :
              \E l \in food_logs : l.id = id
       /\ (Responds /\ resp'.op = "delete_log" /\ delete_pending' = delete_pending)
          => /\ resp'.status = 404
             /\ \A l \in food_logs : l.id # resp'.log_id
             /\ users' = users /\ food_items' = food_items /\ food_logs' = food_logs
             /\ next_log_id' = next_log_id]_vars

\* C6 witness: a delete of an unknown id was refused while the table held a row.
C6_Witness ==
    /\ resp.op = "delete_log" /\ resp.status = 404
    /\ food_logs # {}

\* The one row a step adds to food_logs is the payload's, owned by the user.
AddsLog(username, log) ==
    /\ food_logs \subseteq food_logs'
    /\ Cardinality(food_logs' \ food_logs) = 1
    /\ \A row \in food_logs' \ food_logs :
           /\ row.date = log.date /\ row.meal_type = log.meal_type
           /\ row.quantity = log.quantity /\ row.food_item_id = log.food_item_id
           /\ users[row.user_id].username = username
           /\ \A l \in food_logs : l.id # row.id
    /\ users' = users /\ food_items' = food_items

\* The response is the added row with the food item embedded.
ReturnsLog(log) ==
    /\ resp'.status = 200
    /\ \A row \in food_logs' \ food_logs :
           resp'.body = [id |-> row.id, date |-> log.date, meal_type |-> log.meal_type,
                         quantity |-> log.quantity,
                         food_item |-> [id |-> log.food_item_id]
                                           @@ food_items[log.food_item_id]]

C8_ListOwnItemsByName ==
    [][(Responds /\ resp'.op = "get_user_food_items")
       => IF ~Known(resp'.username) THEN resp'.status = 404
          ELSE LET b == resp'.body IN
               /\ resp'.status = 200
               /\ \A k \in 1..Len(b) :
                      /\ b[k].id \in 1..Len(food_items)
                      /\ b[k] = [id |-> b[k].id] @@ food_items[b[k].id]
                      /\ users[b[k].user_id].username = resp'.username
               /\ \A i \in 1..Len(food_items) :
                      users[food_items[i].user_id].username = resp'.username
                          => \E k \in 1..Len(b) : b[k].id = i
               /\ \A j, k \in 1..Len(b) : j # k => b[j].id # b[k].id
               /\ \A k \in 1..(Len(b) - 1) : LexLeq(b[k].name, b[k + 1].name)]_vars

\* C8 witness: a listing of two items of different names that come in the
\* opposite order of their insertion, while a second user exists.
C8_Witness ==
    /\ resp.op = "get_user_food_items" /\ resp.status = 200
    /\ Len(resp.body) >= 2
    /\ resp.body[1].id > resp.body[2].id
    /\ resp.body[1].name # resp.body[2].name
    /\ Len(users) = 2

\* C9: nothing but the lookup guards the insert: a request goes on to the
\* nutrition call only when no row of the user has the extracted name at the time
\* of its lookup, and its commit then appends a row whatever rows exist by then.
C9_InsertGuardedByLookupOnly ==
    [][/\ \A p \in NewlyPending(analyze_pending, analyze_pending') :
              ~\E i \in 1..Len(food_items) :
                  /\ food_items[i].user_id = p.user_id
                  /\ food_items[i].name = p.item_name_raw
       /\ (Responds /\ resp'.op = "analyze" /\ resp'.status = 200 /\ resp'.new)
          => /\ Len(food_items') = Len(food_items) + 1
             /\ food_items'[Len(food_items')].user_id = resp'.user_id]_vars

\* C9 witness: two rows with the same user and the same name, both created for
\* that very name: the second request looked up before the first inserted.
C9_Witness ==
    \E i, j \in 1..Len(food_items) :
        /\ i < j
        /\ food_items[i].user_id = food_items[j].user_id
        /\ food_items[i].name = food_items[j].name
        /\ origin[i] = food_items[i].name
        /\ origin[j] = food_items[j].name

\* C10: the quantity of a successful analyze response is the extracted quantity
\* divided by 100 exactly when the returned item's serving_size_unit is "100g"
\* or "100ml", and the extracted quantity otherwise, for a new item and for an
\* existing one.
C10_QuantityInItemServings ==
    (resp.op = "analyze" /\ resp.status = 200) =>
        IF resp.item.serving_size_unit \in {<<"1","0","0","g">>, <<"1","0","0","m","l">>}
        THEN resp.quantity * 100 = resp.extracted_quantity * QtyScale
        ELSE resp.quantity = resp.extracted_quantity * QtyScale

====
